---- MODULE Spec2Model ----
(***************************************************************************)
(* A model of the Go package webhook (github.com/dozerokz/discord-webhook- *)
(* go): the payload builder (CreateWebhook, CreateEmbed, the Set* and Add* *)
(* methods), the colour conversions, the timestamp validation and          *)
(* SendWebhook with the JSON encoding of the payload.                      *)
(*                                                                         *)
(* Go strings are byte strings.  A string whose length or characters the   *)
(* code inspects is a sequence of characters, each a one-token TLA+        *)
(* string, with the number of bytes of its UTF-8 encoding given by         *)
(* ByteWidth.  A message content is run-length encoded (runs of n          *)
(* characters of w bytes each) so that contents of about 2000 characters   *)
(* stay small values.  Other strings (titles, URLs) are opaque: the code   *)
(* only stores them and tests them for emptiness.                          *)
(*                                                                         *)
(* A Go slice is a header (array, len, cap) over a backing array in the    *)
(* heap; copying a struct copies the header and shares the array.          *)
(***************************************************************************)
EXTENDS Integers, Sequences, FiniteSets, TLC

VARIABLES
    heap,      \* the backing arrays of the []Field slices, by array id
    embeds,    \* the caller's variables of type Embed
    webhook,   \* the caller's variable of type Webhook
    call,      \* the last call: its operation, receiver, input and results
    log,       \* per Embed variable: the fields passed to AddField/AddFields
    mlog,      \* the embeds passed to AddEmbed, as they were when passed
    ncalls     \* the number of calls made so far

vars == <<heap, embeds, webhook, call, log, mlog, ncalls>>

(***************************************************************************)
(* Program constants.                                                      *)
(***************************************************************************)
minDecimalRGBValue == 0
maxDecimalRGBValue == 16777215
minRGBValue == 0
maxRGBValue == 255
MaxContentLen == 2000
StatusOK == 200
StatusNoContent == 204

(***************************************************************************)
(* Bounds of the model.                                                    *)
(***************************************************************************)
MaxStrLen == 7         \* characters of a colour string
MaxFields == 4         \* length of a Fields slice
MaxEmbeds == 2         \* length of Webhook.Embeds
MaxArrays == 4         \* backing arrays allocated
MaxRuns == 2           \* runs of a run-length encoded content
MaxCalls == 5          \* calls of one run of the builder

(***************************************************************************)
(* Strings.                                                                *)
(***************************************************************************)
MultiByte == "U+00E9"

Alphabet == {"1", "a", "F", "#", "-", MultiByte}

ByteWidth(c) == IF c = MultiByte THEN 2 ELSE 1

RECURSIVE ByteLen(_)
ByteLen(s) == IF s = <<>> THEN 0 ELSE ByteWidth(Head(s)) + ByteLen(Tail(s))

CharLen(s) == Len(s)

DigitVal(c) ==
    CASE c = "0" -> 0 [] c = "1" -> 1 [] c = "2" -> 2 [] c = "3" -> 3
      [] c = "4" -> 4 [] c = "5" -> 5 [] c = "6" -> 6 [] c = "7" -> 7
      [] c = "8" -> 8 [] c = "9" -> 9
      [] c \in {"a", "A"} -> 10 [] c \in {"b", "B"} -> 11
      [] c \in {"c", "C"} -> 12 [] c \in {"d", "D"} -> 13
      [] c \in {"e", "E"} -> 14 [] c \in {"f", "F"} -> 15
      [] OTHER -> 99

IsDecDigit(c) == DigitVal(c) < 10

IsHexDigit(c) == DigitVal(c) < 16

\* The number a string of hex digits denotes in base 16.
RECURSIVE HexValue(_)
HexValue(s) ==
    IF s = <<>> THEN 0 ELSE 16 * HexValue(SubSeq(s, 1, Len(s) - 1)) + DigitVal(s[Len(s)])

\* The number a string of decimal digits denotes.
RECURSIVE DecValue(_)
DecValue(s) ==
    IF s = <<>> THEN 0 ELSE 10 * DecValue(SubSeq(s, 1, Len(s) - 1)) + DigitVal(s[Len(s)])

AllHex(s) == \A k \in 1..Len(s) : IsHexDigit(s[k])

AllDec(s) == \A k \in 1..Len(s) : IsDecDigit(s[k])

\* Content: runs of n characters of w bytes each.
RunBytes(r) == r.w * r.n

RECURSIVE ContentBytes(_)
ContentBytes(c) == IF c = <<>> THEN 0 ELSE RunBytes(Head(c)) + ContentBytes(Tail(c))

RECURSIVE ContentChars(_)
ContentChars(c) == IF c = <<>> THEN 0 ELSE Head(c).n + ContentChars(Tail(c))

\* len(content): Go's len of a string is its number of bytes.
GoLen(c) == ContentBytes(c)

(***************************************************************************)
(* Colour conversions.                                                     *)
(***************************************************************************)
\* strconv.ParseUint's loop over the digits: n = n*16 + d, left to right.
RECURSIVE ParseUintLoop(_, _)
ParseUintLoop(s, n) ==
    IF s = <<>> THEN n ELSE ParseUintLoop(Tail(s), n * 16 + DigitVal(Head(s)))

\* strconv.ParseInt(s, 16, 0): an optional sign, then one or more hex
\* digits (no base prefix, no underscores: the base is given).  The values
\* of at most seven digits are far from the range error of a 64-bit int.
ParseInt16(s) ==
    LET signed == s # <<>> /\ Head(s) \in {"+", "-"}
        digits == IF signed THEN Tail(s) ELSE s
    IN  IF digits = <<>> \/ ~AllHex(digits)
        THEN [val |-> 0, err |-> "parse"]
        ELSE [val |-> IF signed /\ Head(s) = "-" THEN 0 - ParseUintLoop(digits, 0)
                      ELSE ParseUintLoop(digits, 0),
              err |-> "nil"]

\* hexToColorInt without the strip of the leading '#'.
hexToColorIntUnstripped(hex) ==
    IF ByteLen(hex) # 6 THEN [val |-> 0, err |-> "format"]
    ELSE LET p == ParseInt16(hex)
         IN  IF p.err # "nil" THEN [val |-> 0, err |-> "parse"]
             ELSE [val |-> p.val, err |-> "nil"]

hexToColorInt(hex) ==
    LET stripped == IF ByteLen(hex) = 7 /\ Head(hex) = "#" THEN Tail(hex) ELSE hex
    IN  IF ~(ByteLen(hex) = 7 /\ Head(hex) = "#") /\ ByteLen(hex) # 6
        THEN [val |-> 0, err |-> "format"]
        ELSE LET p == ParseInt16(stripped)
             IN  IF p.err # "nil" THEN [val |-> 0, err |-> "parse"]
                 ELSE [val |-> p.val, err |-> "nil"]

\* a | b on two's complement integers of any width (floor division).
RECURSIVE BitOr(_, _)
BitOr(a, b) ==
    IF a = 0 THEN b
    ELSE IF b = 0 THEN a
    ELSE IF a = 0 - 1 \/ b = 0 - 1 THEN 0 - 1
    ELSE 2 * BitOr(a \div 2, b \div 2) + (IF a % 2 = 1 \/ b % 2 = 1 THEN 1 ELSE 0)

ShiftLeft(a, n) == a * 2 ^ n

\* rgbToInt with the red channel shifted by 8 instead of 16.
rgbToIntShift8(rgb) ==
    [val |-> BitOr(BitOr(ShiftLeft(rgb.R, 8), ShiftLeft(rgb.G, 8)), rgb.B),
     err |-> IF rgb.R > maxRGBValue \/ rgb.R < minRGBValue
                \/ rgb.G > maxRGBValue \/ rgb.G < minRGBValue
                \/ rgb.B > maxRGBValue \/ rgb.B < minRGBValue
             THEN "rgb" ELSE "nil"]

rgbToInt(rgb) ==
    [val |-> BitOr(BitOr(ShiftLeft(rgb.R, 16), ShiftLeft(rgb.G, 8)), rgb.B),
     err |-> IF rgb.R > maxRGBValue \/ rgb.R < minRGBValue
                \/ rgb.G > maxRGBValue \/ rgb.G < minRGBValue
                \/ rgb.B > maxRGBValue \/ rgb.B < minRGBValue
             THEN "rgb" ELSE "nil"]

\* The int case with >= for > : the largest colour is refused.
intToColorExclusive(v) ==
    [val |-> v,
     err |-> IF v >= maxDecimalRGBValue \/ v < minDecimalRGBValue THEN "range" ELSE "nil"]

\* The int case of CreateEmbed's type switch.
intToColor(v) ==
    [val |-> v,
     err |-> IF v > maxDecimalRGBValue \/ v < minDecimalRGBValue THEN "range" ELSE "nil"]

\* A value of the type parameter T of CreateEmbed (string | int | RGB),
\* tagged with its dynamic type.
ZeroRGB == [R |-> 0, G |-> 0, B |-> 0]

StringColor(s) == [type |-> "string", s |-> s, i |-> 0, rgb |-> ZeroRGB]

IntColor(i) == [type |-> "int", s |-> <<>>, i |-> i, rgb |-> ZeroRGB]

RGBColor(rgb) == [type |-> "RGB", s |-> <<>>, i |-> 0, rgb |-> rgb]

\* The type switch of CreateEmbed.
resolveColor(color) ==
    CASE color.type = "string" -> hexToColorInt(color.s)
      [] color.type = "int" -> intToColor(color.i)
      [] color.type = "RGB" -> rgbToInt(color.rgb)

(***************************************************************************)
(* Timestamp validation: time.Parse(time.RFC3339, timestamp), the layout   *)
(* "2006-01-02T15:04:05Z07:00".                                            *)
(***************************************************************************)
Lit(s, c) == s # <<>> /\ Head(s) = c

Drop(s, n) == SubSeq(s, n + 1, Len(s))

\* getnum: one or two leading digits; with fixed, exactly two.
GetNum(s, fixed) ==
    IF s = <<>> \/ ~IsDecDigit(s[1]) THEN [ok |-> FALSE, val |-> 0, rest |-> s]
    ELSE IF Len(s) < 2 \/ ~IsDecDigit(s[2])
         THEN [ok |-> ~fixed, val |-> DigitVal(s[1]), rest |-> Drop(s, 1)]
         ELSE [ok |-> TRUE, val |-> DecValue(SubSeq(s, 1, 2)), rest |-> Drop(s, 2)]

RECURSIVE DropDigits(_)
DropDigits(s) == IF s # <<>> /\ IsDecDigit(Head(s)) THEN DropDigits(Tail(s)) ELSE s

\* A fractional second after the seconds is accepted though the layout has none.
SkipFraction(s) ==
    IF Len(s) >= 2 /\ s[1] \in {".", ","} /\ IsDecDigit(s[2]) THEN DropDigits(Tail(s)) ELSE s

\* The layout element Z07:00.
ParseZone(s) ==
    IF Lit(s, "Z") THEN [ok |-> TRUE, rest |-> Tail(s)]
    ELSE IF Len(s) < 6 THEN [ok |-> FALSE, rest |-> s]
    ELSE [ok |-> /\ s[4] = ":"
                 /\ s[1] \in {"+", "-"}
                 /\ AllDec(SubSeq(s, 2, 3)) /\ AllDec(SubSeq(s, 5, 6))
                 /\ DecValue(SubSeq(s, 2, 3)) <= 24
                 /\ DecValue(SubSeq(s, 5, 6)) <= 60,
          rest |-> Drop(s, 6)]

IsLeap(y) == y % 4 = 0 /\ (y % 100 # 0 \/ y % 400 = 0)

DaysIn(m, y) ==
    IF m = 2 THEN (IF IsLeap(y) THEN 29 ELSE 28)
    ELSE IF m \in {4, 6, 9, 11} THEN 30 ELSE 31

isValidISO8601(timestamp) ==
    LET a == Drop(timestamp, 4)
        mon == GetNum(Drop(a, 1), TRUE)
        b == mon.rest
        day == GetNum(Drop(b, 1), TRUE)
        c == day.rest
        hour == GetNum(Drop(c, 1), FALSE)
        d == hour.rest
        min == GetNum(Drop(d, 1), TRUE)
        e == min.rest
        sec == GetNum(Drop(e, 1), TRUE)
        zone == ParseZone(SkipFraction(sec.rest))
    IN  /\ Len(timestamp) >= 4 /\ AllDec(SubSeq(timestamp, 1, 4))
        /\ Lit(a, "-") /\ mon.ok /\ mon.val \in 1..12
        /\ Lit(b, "-") /\ day.ok
        /\ Lit(c, "T") /\ hour.ok /\ hour.val < 24
        /\ Lit(d, ":") /\ min.ok /\ min.val < 60
        /\ Lit(e, ":") /\ sec.ok /\ sec.val < 60
        /\ zone.ok /\ zone.rest = <<>>
        /\ day.val \in 1..DaysIn(mon.val, DecValue(SubSeq(timestamp, 1, 4)))

(***************************************************************************)
(* The payload model.                                                      *)
(***************************************************************************)
NilSlice == [arr |-> 0, len |-> 0, cap |-> 0]

ZeroField == [Name |-> "", Value |-> "", Inline |-> FALSE]

ZeroFooter == [Text |-> "", IconURL |-> "", ProxyIconURL |-> ""]

ZeroImage == [URL |-> "", ProxyURL |-> "", Height |-> 0, Width |-> 0]

ZeroThumbnail == [URL |-> "", ProxyURL |-> "", Height |-> 0, Width |-> 0]

ZeroAuthor == [Name |-> "", URL |-> "", IconURL |-> "", ProxyIconURL |-> ""]

ZeroEmbed ==
    [Title |-> "", Description |-> "", URL |-> "", Color |-> 0, Timestamp |-> <<>>,
     Footer |-> ZeroFooter, Image |-> ZeroImage, Thumbnail |-> ZeroThumbnail,
     Author |-> ZeroAuthor, Fields |-> NilSlice]

ZeroWebhook == [Content |-> <<>>, Username |-> "", AvatarURL |-> "", Embeds |-> <<>>]

CreateFooter(text, iconURL, proxyIconURL) ==
    [Text |-> text, IconURL |-> iconURL, ProxyIconURL |-> proxyIconURL]

CreateImage(url, proxyURL, height, width) ==
    [URL |-> url, ProxyURL |-> proxyURL, Height |-> height, Width |-> width]

CreateThumbnail(url, proxyURL, height, width) ==
    [URL |-> url, ProxyURL |-> proxyURL, Height |-> height, Width |-> width]

CreateAuthor(name, url, iconURL, proxyIconURL) ==
    [Name |-> name, URL |-> url, IconURL |-> iconURL, ProxyIconURL |-> proxyIconURL]

CreateField(name, value, inline) == [Name |-> name, Value |-> value, Inline |-> inline]

NoErr == [kind |-> "nil", info |-> <<>>]

Err(kind, info) == [kind |-> kind, info |-> info]

(***************************************************************************)
(* Slices of Field: append(s, fs...).                                      *)
(***************************************************************************)
\* The elements a slice shows: the first len cells of its array.
Elems(h, s) == [k \in 1..s.len |-> h[s.arr][k]]

\* The capacity append gives a slice it has to grow (runtime growslice,
\* below its threshold of 256 elements; the rounding to a size class adds
\* no cell to an array of at most eight Fields).
GrowCap(oldCap, needed) == IF needed > 2 * oldCap THEN needed ELSE 2 * oldCap

\* append(s, fs...): in place when the capacity allows, else into a new array.
GoAppend(h, s, fs) ==
    LET n == s.len + Len(fs)
    IN  IF fs = <<>> THEN [heap |-> h, slice |-> s]
        ELSE IF n <= s.cap
        THEN [heap |-> [h EXCEPT ![s.arr] =
                           [k \in 1..s.cap |-> IF k > s.len /\ k <= n
                                               THEN fs[k - s.len] ELSE @[k]]],
              slice |-> [s EXCEPT !.len = n]]
        ELSE LET newCap == GrowCap(s.cap, n)
             IN  [heap |-> Append(h, [k \in 1..newCap |->
                                        IF k <= s.len THEN h[s.arr][k]
                                        ELSE IF k <= n THEN fs[k - s.len]
                                        ELSE ZeroField]),
                  slice |-> [arr |-> Len(h) + 1, len |-> n, cap |-> newCap]]

\* Whether append(s, fs...) allocates.
Grows(s, fs) == fs # <<>> /\ s.len + Len(fs) > s.cap

\* An Embed as a value: its Fields read through the heap.
View(h, e) == [e EXCEPT !.Fields = Elems(h, e.Fields)]

(***************************************************************************)
(* The JSON encoding of the payload (json.Marshal with the struct tags of  *)
(* the types).  An object is a function from its keys to their values; a   *)
(* key tagged omitempty is left out when its value is false, 0, or an      *)
(* empty string or slice.  encoding/json never takes a struct value for    *)
(* empty, so omitempty has no effect on a field of struct type.            *)
(***************************************************************************)
EmptyObject == <<>>

OmitEmptyString(key, v) == IF v = "" THEN EmptyObject ELSE key :> v

OmitEmptyInt(key, v) == IF v = 0 THEN EmptyObject ELSE key :> v

OmitEmptyBool(key, v) == IF v = FALSE THEN EmptyObject ELSE key :> v

OmitEmptySeq(key, v) == IF Len(v) = 0 THEN EmptyObject ELSE key :> v

OmitEmptyStruct(key, v) == key :> v

MarshalFooter(f) ==
    OmitEmptyString("text", f.Text) @@ OmitEmptyString("icon_url", f.IconURL)
      @@ OmitEmptyString("proxy_icon_url", f.ProxyIconURL)

MarshalImage(i) ==
    OmitEmptyString("url", i.URL) @@ OmitEmptyString("proxy_url", i.ProxyURL)
      @@ OmitEmptyInt("height", i.Height) @@ OmitEmptyInt("width", i.Width)

MarshalThumbnail(t) ==
    OmitEmptyString("url", t.URL) @@ OmitEmptyString("proxy_url", t.ProxyURL)
      @@ OmitEmptyInt("height", t.Height) @@ OmitEmptyInt("width", t.Width)

MarshalAuthor(a) ==
    OmitEmptyString("name", a.Name) @@ OmitEmptyString("url", a.URL)
      @@ OmitEmptyString("icon_url", a.IconURL)
      @@ OmitEmptyString("proxy_icon_url", a.ProxyIconURL)

MarshalField(f) ==
    ("name" :> f.Name) @@ ("value" :> f.Value) @@ OmitEmptyBool("inline", f.Inline)

MarshalEmbed(h, e) ==
    OmitEmptyString("title", e.Title) @@ OmitEmptyString("description", e.Description)
      @@ OmitEmptyString("url", e.URL) @@ OmitEmptyInt("color", e.Color)
      @@ OmitEmptySeq("timestamp", e.Timestamp)
      @@ OmitEmptyStruct("footer", MarshalFooter(e.Footer))
      @@ OmitEmptyStruct("image", MarshalImage(e.Image))
      @@ OmitEmptyStruct("thumbnail", MarshalThumbnail(e.Thumbnail))
      @@ OmitEmptyStruct("author", MarshalAuthor(e.Author))
      @@ OmitEmptySeq("fields", [k \in 1..e.Fields.len |-> MarshalField(h[e.Fields.arr][k])])

MarshalWebhook(h, w) ==
    OmitEmptySeq("content", w.Content) @@ OmitEmptyString("username", w.Username)
      @@ OmitEmptyString("avatar_url", w.AvatarURL)
      @@ OmitEmptySeq("embeds", [k \in 1..Len(w.Embeds) |-> MarshalEmbed(h, w.Embeds[k])])

(***************************************************************************)
(* The functions and methods of the package, as functions of the values    *)
(* they read to the values they return or store.                           *)
(***************************************************************************)
AddEmbed(w, embed) == [w EXCEPT !.Embeds = Append(@, embed)]

AddField(h, e, field) ==
    LET r == GoAppend(h, e.Fields, <<field>>)
    IN  [heap |-> r.heap, embed |-> [e EXCEPT !.Fields = r.slice]]

\* AddFields appending only the first of the fields.
AddFieldsFirstOnly(h, e, fields) ==
    LET r == GoAppend(h, e.Fields, IF fields = <<>> THEN <<>> ELSE <<Head(fields)>>)
    IN  [heap |-> r.heap, embed |-> [e EXCEPT !.Fields = r.slice]]

AddFields(h, e, fields) ==
    LET r == GoAppend(h, e.Fields, fields)
    IN  [heap |-> r.heap, embed |-> [e EXCEPT !.Fields = r.slice]]

SetFooter(e, footer) == [e EXCEPT !.Footer = footer]

SetImage(e, image) == [e EXCEPT !.Image = image]

SetThumbnail(e, thumbnail) == [e EXCEPT !.Thumbnail = thumbnail]

SetAuthor(e, author) == [e EXCEPT !.Author = author]

\* SetTimestamp storing the text before it validates it.
SetTimestampEager(e, timestamp) ==
    [embed |-> [e EXCEPT !.Timestamp = timestamp],
     err |-> IF isValidISO8601(timestamp) THEN NoErr ELSE Err("timestamp", <<>>)]

SetTimestamp(e, timestamp) ==
    IF isValidISO8601(timestamp)
    THEN [embed |-> [e EXCEPT !.Timestamp = timestamp], err |-> NoErr]
    ELSE [embed |-> e, err |-> Err("timestamp", <<>>)]

CreateWebhook(content, username, avatarURL) ==
    IF GoLen(content) > MaxContentLen
    THEN [webhook |-> ZeroWebhook, err |-> Err("length", <<GoLen(content)>>)]
    ELSE [webhook |-> [Content |-> content, Username |-> username,
                       AvatarURL |-> avatarURL, Embeds |-> <<>>],
          err |-> NoErr]

CreateEmbed(title, description, url, color) ==
    LET c == resolveColor(color)
    IN  IF c.err # "nil"
        THEN [embed |-> ZeroEmbed, err |-> Err(c.err, <<>>)]
        ELSE [embed |-> [ZeroEmbed EXCEPT !.Title = title, !.Description = description,
                                          !.URL = url, !.Color = c.val],
              err |-> NoErr]

\* The status test accepting every 2xx status.
IsSuccessStatusAny2xx(code) == code \in 200..299

\* The status test of SendWebhook.
IsSuccessStatus(code) == ~(code # StatusOK /\ code # StatusNoContent)

\* SendWebhook, given what http.Post did: it returned an error (outcome.kind
\* = "error", with its cause) or a response (with its status code).
SendWebhook(h, webhookPayload, outcome) ==
    LET jsonData == MarshalWebhook(h, webhookPayload)
    IN  IF outcome.kind = "error"
        THEN [body |-> jsonData, err |-> Err("post", <<outcome.cause>>)]
        ELSE IF ~IsSuccessStatus(outcome.status)
        THEN [body |-> jsonData, err |-> Err("status", <<outcome.status>>)]
        ELSE [body |-> jsonData, err |-> NoErr]

(***************************************************************************)
(* Inputs.                                                                 *)
(***************************************************************************)
Slots == {1, 2}

Str(n) == UNION {[1..k -> Alphabet] : k \in 0..n}

HexInputs == Str(MaxStrLen)

IntInputs ==
    (0 - 3 .. 3) \cup {255, 256, 65535, 65536, 7303757}
      \cup (maxDecimalRGBValue - 3 .. maxDecimalRGBValue + 3)
      \cup {0 - maxDecimalRGBValue, 0 - maxDecimalRGBValue - 1, 2 * maxDecimalRGBValue}

Channels == {0 - 256, 0 - 1, 0, 1, 77, 111, 222, 254, 255, 256, 511}

RGBInputs == [R : Channels, G : Channels, B : Channels]

TextInputs == {"", "text"}

Counts == {1, 2, 500, 666, 667, 1000, 1001, 1999, 2000, 2001}

Runs == [w : 1..4, n : Counts]

ContentInputs == UNION {[1..k -> Runs] : k \in 0..MaxRuns}

Hello == <<[w |-> 1, n |-> 2]>>

Field1 == CreateField("Field Name 1", "Value 1", TRUE)

Field2 == CreateField("", "", FALSE)

FieldInputs == {Field1, Field2}

FieldLists == {<<>>, <<Field2, Field1>>, <<Field2, Field2, Field1>>}

TsUTC ==
    <<"2", "0", "2", "4", "-", "0", "1", "-", "1", "5", "T",
      "1", "0", ":", "3", "0", ":", "0", "0", "Z">>

TsOffset ==
    <<"2", "0", "2", "4", "-", "0", "1", "-", "1", "5", "T",
      "1", "0", ":", "3", "0", ":", "0", "0", "+", "0", "2", ":", "0", "0">>

TsSpace ==
    <<"2", "0", "2", "4", "-", "0", "1", "-", "1", "5", " ",
      "1", "0", ":", "3", "0", ":", "0", "0">>

TsNotADate == <<"n", "o", "t", "-", "a", "-", "d", "a", "t", "e">>

TsFeb30 ==
    <<"2", "0", "2", "4", "-", "0", "2", "-", "3", "0", "T",
      "1", "0", ":", "3", "0", ":", "0", "0", "Z">>

TimestampInputs == {TsUTC, TsOffset, TsSpace, TsNotADate, TsFeb30, <<>>}

ColorInputs ==
    {RGBColor([R |-> 111, G |-> 222, B |-> 77]), IntColor(0 - 1)}

Causes == {"connection refused", "timeout"}

Outcome(kind, status, cause) == [kind |-> kind, status |-> status, cause |-> cause]

Responses(codes) == {Outcome("response", c, "") : c \in codes}

Failures == {Outcome("error", 0, c) : c \in Causes}

AllOutcomes == Responses(100..599) \cup Failures

FewOutcomes == Responses({StatusNoContent, 400})

(***************************************************************************)
(* The calls.  A receiver is one of the caller's Embed variables or an     *)
(* element of the message's Embeds (webhook.Embeds[k].AddField(...)).      *)
(***************************************************************************)
VarRef(i) == [kind |-> "var", idx |-> i]

MsgRef(k) == [kind |-> "msg", idx |-> k]

WebhookRef == [kind |-> "webhook", idx |-> 0]

NoRef == [kind |-> "none", idx |-> 0]

VarRefs == {VarRef(i) : i \in Slots}

MsgRefs == {MsgRef(k) : k \in 1..Len(webhook.Embeds)}

Get(ref) == IF ref.kind = "var" THEN embeds[ref.idx] ELSE webhook.Embeds[ref.idx]

Put(ref, e) ==
    IF ref.kind = "var"
    THEN embeds' = [embeds EXCEPT ![ref.idx] = e] /\ UNCHANGED webhook
    ELSE webhook' = [webhook EXCEPT !.Embeds[ref.idx] = e] /\ UNCHANGED embeds

Logged(ref, fields) ==
    IF ref.kind = "var" THEN log' = [log EXCEPT ![ref.idx] = @ \o fields]
    ELSE UNCHANGED log

\* A run makes at most MaxCalls calls.
Budget == ncalls < MaxCalls

\* What every call records.
Called(op, ref, in, err) ==
    /\ call' = [op |-> op, recv |-> ref, in |-> in, err |-> err]
    /\ ncalls' = ncalls + 1

\* append may allocate only while the model's heap has room.
Room(s, fields) ==
    /\ s.len + Len(fields) <= MaxFields
    /\ Grows(s, fields) => Len(heap) < MaxArrays

\* embed, err := CreateEmbed(title, description, url, color), into variable i
CallCreateEmbed(i, title, description, url, color) ==
    LET r == CreateEmbed(title, description, url, color)
    IN  /\ Budget
        /\ embeds' = [embeds EXCEPT ![i] = r.embed]
        /\ log' = [log EXCEPT ![i] = <<>>]
        /\ Called("CreateEmbed", VarRef(i),
                  [title |-> title, description |-> description, url |-> url,
                   color |-> color], r.err)
        /\ UNCHANGED <<heap, webhook, mlog>>

\* webhook, err := CreateWebhook(content, username, avatarURL)
CallCreateWebhook(content, username, avatarURL) ==
    LET r == CreateWebhook(content, username, avatarURL)
    IN  /\ Budget
        /\ webhook' = r.webhook
        /\ mlog' = <<>>
        /\ Called("CreateWebhook", WebhookRef,
                  [content |-> content, username |-> username,
                   avatarURL |-> avatarURL], r.err)
        /\ UNCHANGED <<heap, embeds, log>>

\* webhook.AddEmbed(embeds[i])
CallAddEmbed(i) ==
    /\ Budget
    /\ Len(webhook.Embeds) < MaxEmbeds
    /\ webhook' = AddEmbed(webhook, embeds[i])
    /\ mlog' = Append(mlog, View(heap, embeds[i]))
    /\ Called("AddEmbed", WebhookRef, i, NoErr)
    /\ UNCHANGED <<heap, embeds, log>>

CallAddField(ref, field) ==
    LET r == AddField(heap, Get(ref), field)
    IN  /\ Budget
        /\ Room(Get(ref).Fields, <<field>>)
        /\ heap' = r.heap
        /\ Put(ref, r.embed)
        /\ Logged(ref, <<field>>)
        /\ Called("AddField", ref, <<field>>, NoErr)
        /\ UNCHANGED mlog

CallAddFields(ref, fields) ==
    LET r == AddFields(heap, Get(ref), fields)
    IN  /\ Budget
        /\ Room(Get(ref).Fields, fields)
        /\ heap' = r.heap
        /\ Put(ref, r.embed)
        /\ Logged(ref, fields)
        /\ Called("AddFields", ref, fields, NoErr)
        /\ UNCHANGED mlog

CallSetFooter(ref, footer) ==
    /\ Budget
    /\ Put(ref, SetFooter(Get(ref), footer))
    /\ Called("SetFooter", ref, footer, NoErr)
    /\ UNCHANGED <<heap, log, mlog>>

CallSetImage(ref, image) ==
    /\ Budget
    /\ Put(ref, SetImage(Get(ref), image))
    /\ Called("SetImage", ref, image, NoErr)
    /\ UNCHANGED <<heap, log, mlog>>

CallSetThumbnail(ref, thumbnail) ==
    /\ Budget
    /\ Put(ref, SetThumbnail(Get(ref), thumbnail))
    /\ Called("SetThumbnail", ref, thumbnail, NoErr)
    /\ UNCHANGED <<heap, log, mlog>>

CallSetAuthor(ref, author) ==
    /\ Budget
    /\ Put(ref, SetAuthor(Get(ref), author))
    /\ Called("SetAuthor", ref, author, NoErr)
    /\ UNCHANGED <<heap, log, mlog>>

CallSetTimestamp(ref, timestamp) ==
    LET r == SetTimestamp(Get(ref), timestamp)
    IN  /\ Budget
        /\ Put(ref, r.embed)
        /\ Called("SetTimestamp", ref, timestamp, r.err)
        /\ UNCHANGED <<heap, log, mlog>>

\* embeds[j] = embeds[i]: the assignment of one Embed variable to another
CallAssign(i, j) ==
    /\ Budget
    /\ i # j
    /\ embeds' = [embeds EXCEPT ![j] = embeds[i]]
    /\ log' = [log EXCEPT ![j] = log[i]]
    /\ Called("assign", VarRef(j), i, NoErr)
    /\ UNCHANGED <<heap, webhook, mlog>>

\* err := SendWebhook(webhookUrl, webhook)
CallSendWebhook(outcome) ==
    LET r == SendWebhook(heap, webhook, outcome)
    IN  /\ Budget
        /\ Called("SendWebhook", NoRef, [outcome |-> outcome, body |-> r.body], r.err)
        /\ UNCHANGED <<heap, embeds, webhook, log, mlog>>

(***************************************************************************)
(* Specifications.                                                         *)
(***************************************************************************)
Init ==
    /\ heap = <<>>
    /\ embeds = [i \in Slots |-> ZeroEmbed]
    /\ webhook = ZeroWebhook
    /\ call = [op |-> "none", recv |-> NoRef, in |-> <<>>, err |-> NoErr]
    /\ log = [i \in Slots |-> <<>>]
    /\ mlog = <<>>
    /\ ncalls = 0

\* One CreateEmbed with a colour string.
CreateEmbedString ==
    /\ call.op = "none"
    /\ \E hex \in HexInputs :
          CallCreateEmbed(1, "Embed Title", "Embed description text",
                          "https://example.com", StringColor(hex))

\* One CreateEmbed with an int colour.
CreateEmbedInt ==
    /\ call.op = "none"
    /\ \E v \in IntInputs, title \in TextInputs, description \in TextInputs,
          url \in TextInputs :
          CallCreateEmbed(1, title, description, url, IntColor(v))

\* One CreateEmbed with an RGB colour.
CreateEmbedRGB ==
    /\ call.op = "none"
    /\ \E rgb \in RGBInputs, title \in TextInputs :
          CallCreateEmbed(1, title, "Embed description text", "https://example.com",
                          RGBColor(rgb))

NextColor == CreateEmbedString \/ CreateEmbedInt \/ CreateEmbedRGB

SpecColor == Init /\ [][NextColor]_vars

\* One CreateWebhook.
CreateWebhookOnce ==
    /\ call.op = "none"
    /\ \E content \in ContentInputs, username \in TextInputs :
          CallCreateWebhook(content, username, "")

NextContent == CreateWebhookOnce

SpecContent == Init /\ [][NextContent]_vars

\* The calls of the builder, each on one of the receivers refs.
StepCreateWebhook ==
    \E content \in {Hello, <<[w |-> 1, n |-> 2001]>>} :
       CallCreateWebhook(content, "Bot's username", "")

StepCreateEmbed(slots) ==
    \E i \in slots, color \in ColorInputs :
       CallCreateEmbed(i, "Embed Title", "", "https://example.com", color)

StepAddEmbed == \E i \in Slots : CallAddEmbed(i)

StepAddField(refs) == \E ref \in refs, field \in FieldInputs : CallAddField(ref, field)

StepAddFields(refs) == \E ref \in refs, fields \in FieldLists : CallAddFields(ref, fields)

StepSetFooter(refs) ==
    \E ref \in refs : CallSetFooter(ref, CreateFooter("Footer Text", "", ""))

StepSetImage(refs) ==
    \E ref \in refs : CallSetImage(ref, CreateImage("https://example.com/i.png", "", 200, 0))

StepSetThumbnail(refs) ==
    \E ref \in refs :
       CallSetThumbnail(ref, CreateThumbnail("https://example.com/t.png", "", 300, 300))

StepSetAuthor(refs) ==
    \E ref \in refs : CallSetAuthor(ref, CreateAuthor("@Dozerokz", "", "", ""))

StepSetTimestamp(refs, inputs) ==
    \E ref \in refs, timestamp \in inputs : CallSetTimestamp(ref, timestamp)

StepAssign == \E i \in Slots, j \in Slots : CallAssign(i, j)

StepSendWebhook == \E outcome \in FewOutcomes : CallSendWebhook(outcome)

\* Appending, every Embed value held by one owner: the caller's variables
\* are never copied and an embed in the message is not called on.
NextOwned ==
    \/ StepCreateWebhook
    \/ StepCreateEmbed(Slots)
    \/ StepAddEmbed
    \/ StepAddField(VarRefs)
    \/ StepAddFields(VarRefs)

SpecOwned == Init /\ [][NextOwned]_vars

\* One embed, its attributes and its timestamp.
NextTimestamp ==
    \/ StepCreateEmbed({1})
    \/ StepAddField({VarRef(1)})
    \/ StepSetFooter({VarRef(1)})
    \/ StepSetImage({VarRef(1)})
    \/ StepSetThumbnail({VarRef(1)})
    \/ StepSetAuthor({VarRef(1)})
    \/ StepSetTimestamp({VarRef(1)}, TimestampInputs)

SpecTimestamp == Init /\ [][NextTimestamp]_vars

\* The builder: every call, on every receiver.
Next ==
    \/ StepCreateWebhook
    \/ StepCreateEmbed(Slots)
    \/ StepAddEmbed
    \/ StepAddField(VarRefs \cup MsgRefs)
    \/ StepAddFields(VarRefs \cup MsgRefs)
    \/ StepSetFooter(VarRefs \cup MsgRefs)
    \/ StepSetImage(VarRefs \cup MsgRefs)
    \/ StepSetThumbnail(VarRefs \cup MsgRefs)
    \/ StepSetAuthor(VarRefs \cup MsgRefs)
    \/ StepSetTimestamp(VarRefs \cup MsgRefs, {TsUTC, TsSpace})
    \/ StepAssign
    \/ StepSendWebhook

Spec == Init /\ [][Next]_vars

NextSend == \E outcome \in AllOutcomes : CallSendWebhook(outcome)

SpecSend == Init /\ [][NextSend]_vars

(***************************************************************************)
(* Properties.                                                             *)
(***************************************************************************)
SuccessCodes == {200, 204}

\* C1: SendWebhook returns no error exactly when http.Post returned a
\* response whose status is 200 or 204; for a response with any other
\* status it returns an error carrying that status code; when http.Post
\* returned an error it returns an error carrying that cause.
C1_SendClassified ==
    call.op = "SendWebhook" =>
       LET o == call.in.outcome
       IN  /\ call.err = NoErr <=> (o.kind = "response" /\ o.status \in SuccessCodes)
           /\ (o.kind = "response" /\ o.status \notin SuccessCodes)
                 => call.err = Err("status", <<o.status>>)
           /\ o.kind = "error" => call.err = Err("post", <<o.cause>>)

\* C1 witness: a response with status 201 was turned into an error carrying 201.
C1_Witness ==
    /\ call.op = "SendWebhook"
    /\ call.in.outcome = Outcome("response", 201, "")
    /\ call.err = Err("status", <<201>>)

\* C2 as claimed: CreateWebhook succeeds exactly when the content has at
\* most 2000 characters, whatever the byte width of the characters; on
\* success the Webhook holds the three arguments and no embeds, on failure
\* it is the empty Webhook and the error is the length error.
C2_CharacterLimit ==
    call.op = "CreateWebhook" =>
       /\ call.err = NoErr <=> ContentChars(call.in.content) <= 2000
       /\ call.err = NoErr =>
             webhook = [Content |-> call.in.content, Username |-> call.in.username,
                        AvatarURL |-> call.in.avatarURL, Embeds |-> <<>>]
       /\ call.err # NoErr => webhook = ZeroWebhook /\ call.err.kind = "length"

\* The colour string of the last call without one leading '#'.
Unhashed(s) == IF s # <<>> /\ Head(s) = "#" THEN Tail(s) ELSE s

CreatedWith(color) ==
    [ZeroEmbed EXCEPT !.Title = call.in.title, !.Description = call.in.description,
                      !.URL = call.in.url, !.Color = color]

\* C3: for a colour string of exactly 6 hex digits, with or without one
\* leading '#', CreateEmbed succeeds and stores the base-16 value of the
\* digits; for a string whose length without one leading '#' is not 6 it
\* fails with an invalid-colour error.
C3_HexColor ==
    (call.op = "CreateEmbed" /\ call.in.color.type = "string") =>
       LET digits == Unhashed(call.in.color.s)
       IN  /\ (CharLen(digits) = 6 /\ AllHex(digits))
                 => call.err = NoErr /\ embeds[1] = CreatedWith(HexValue(digits))
           /\ CharLen(digits) # 6
                 => call.err.kind \in {"format", "parse"} /\ embeds[1] = ZeroEmbed

\* C3 witness: "#Fa1Fa1" was accepted and stored as 0xFA1FA1.
C3_Witness ==
    /\ call.op = "CreateEmbed"
    /\ call.in.color = StringColor(<<"#", "F", "a", "1", "F", "a", "1">>)
    /\ call.err = NoErr
    /\ embeds[1].Color = 16392097

\* C4 as claimed: an Embed returned without an error has its Color in
\* 0..16777215, and a colour string is accepted only when it is exactly 6
\* hex digits after an optional single leading '#'.
C4_ColorInRange ==
    (call.op = "CreateEmbed" /\ call.err = NoErr) =>
       /\ embeds[1].Color \in 0..16777215
       /\ call.in.color.type = "string" =>
             (CharLen(Unhashed(call.in.color.s)) = 6 /\ AllHex(Unhashed(call.in.color.s)))

\* C5: for an RGB colour with every channel in 0..255 CreateEmbed succeeds
\* and stores R*65536 + G*256 + B; with a channel outside 0..255 it fails
\* with the invalid-colour error and returns the empty Embed.
C5_RGBColor ==
    (call.op = "CreateEmbed" /\ call.in.color.type = "RGB") =>
       LET c == call.in.color.rgb
       IN  IF c.R \in 0..255 /\ c.G \in 0..255 /\ c.B \in 0..255
           THEN call.err = NoErr /\ embeds[1] = CreatedWith(c.R * 65536 + c.G * 256 + c.B)
           ELSE call.err.kind = "rgb" /\ embeds[1] = ZeroEmbed

\* C5 witness: RGB{111, 222, 77} was stored as 7331405, and a triple with a
\* channel of 256 is among the inputs.
C5_Witness ==
    /\ call.op = "CreateEmbed"
    /\ call.in.color = RGBColor([R |-> 111, G |-> 222, B |-> 77])
    /\ call.err = NoErr
    /\ embeds[1].Color = 7331405
    /\ [R |-> 256, G |-> 0, B |-> 0] \in RGBInputs

\* C6: for an int colour v CreateEmbed succeeds exactly when 0 <= v <=
\* 16777215; on success the Embed holds v with the given title, description
\* and url, on failure it is the empty Embed and the error is the range error.
C6_IntColor ==
    (call.op = "CreateEmbed" /\ call.in.color.type = "int") =>
       LET v == call.in.color.i
       IN  /\ call.err = NoErr <=> (0 <= v /\ v <= 16777215)
           /\ call.err = NoErr => embeds[1] = CreatedWith(v)
           /\ call.err # NoErr => embeds[1] = ZeroEmbed /\ call.err.kind = "range"

\* C6 witness: the largest colour, 16777215, was accepted with a title.
C6_Witness ==
    /\ call.op = "CreateEmbed"
    /\ call.in.color = IntColor(16777215)
    /\ call.in.title = "text"
    /\ call.err = NoErr
    /\ embeds[1].Color = 16777215

\* The timestamps among TimestampInputs that are valid RFC 3339.
ValidTimestamps == {TsUTC, TsOffset}

\* C7: a SetTimestamp call on the embed with a valid timestamp stores
\* exactly that text and returns no error; with an invalid one it returns
\* an error and leaves the Timestamp as it was; either way every other
\* field of the embed, and everything else, is as before.
C7_TimestampCommit ==
    [][call'.op = "SetTimestamp" =>
          /\ call'.in \in ValidTimestamps =>
                /\ call'.err = NoErr
                /\ embeds'[1] = [embeds[1] EXCEPT !.Timestamp = call'.in]
          /\ call'.in \notin ValidTimestamps =>
                /\ call'.err.kind = "timestamp"
                /\ embeds'[1] = embeds[1]
          /\ heap' = heap /\ embeds'[2] = embeds[2] /\ webhook' = webhook]_vars

\* C7 witness: an invalid timestamp was refused on an embed that has a
\* field, a footer and an earlier valid timestamp, which it keeps.
C7_Witness ==
    /\ call.op = "SetTimestamp"
    /\ call.in = TsSpace
    /\ call.err.kind = "timestamp"
    /\ embeds[1].Timestamp = TsOffset
    /\ embeds[1].Fields.len = 1
    /\ embeds[1].Footer # ZeroFooter

\* C8: the Fields of every embed are the fields passed to its AddField and
\* AddFields calls, in call order, and the message's Embeds are the embeds
\* passed to AddEmbed, in call order.
C8_AppendOrder ==
    /\ \A i \in Slots : Elems(heap, embeds[i].Fields) = log[i]
    /\ [k \in 1..Len(webhook.Embeds) |-> View(heap, webhook.Embeds[k])] = mlog

\* C8 witness: AddField(f1), AddEmbed, then AddFields([f2, f1]) on one
\* embed: its fields are f1, f2, f1 and the message holds it as it was.
C8_Witness ==
    /\ call.op = "AddFields"
    /\ call.recv = VarRef(1)
    /\ log[1] = <<Field1, Field2, Field1>>
    /\ Len(webhook.Embeds) = 1
    /\ Elems(heap, webhook.Embeds[1].Fields) = <<Field1>>

Has(obj, key) == key \in DOMAIN obj

EmbedPresence(obj, e) ==
    /\ Has(obj, "title") <=> e.Title # ""
    /\ Has(obj, "description") <=> e.Description # ""
    /\ Has(obj, "url") <=> e.URL # ""
    /\ Has(obj, "color") <=> e.Color # 0
    /\ Has(obj, "timestamp") <=> e.Timestamp # <<>>
    /\ Has(obj, "footer") <=> e.Footer # ZeroFooter
    /\ Has(obj, "image") <=> e.Image # ZeroImage
    /\ Has(obj, "thumbnail") <=> e.Thumbnail # ZeroThumbnail
    /\ Has(obj, "author") <=> e.Author # ZeroAuthor
    /\ Has(obj, "fields") <=> e.Fields.len # 0
    /\ Has(obj, "fields") =>
          \A k \in 1..e.Fields.len :
             Has(obj["fields"][k], "name") /\ Has(obj["fields"][k], "value")

\* C9 as claimed: in the body SendWebhook posts, the message and every
\* embed carry a key exactly for the attributes that are not zero or empty
\* (a footer, image, thumbnail or author never set has no key), and every
\* field carries its name and its value.
C9_PresenceConditional ==
    call.op = "SendWebhook" =>
       LET body == call.in.body
       IN  /\ Has(body, "content") <=> webhook.Content # <<>>
           /\ Has(body, "username") <=> webhook.Username # ""
           /\ Has(body, "avatar_url") <=> webhook.AvatarURL # ""
           /\ Has(body, "embeds") <=> webhook.Embeds # <<>>
           /\ \A k \in 1..Len(webhook.Embeds) :
                 EmbedPresence(body["embeds"][k], webhook.Embeds[k])

\* C10 as claimed: a call changes no embed but its receiver: every other
\* Embed variable, and every other embed of the message, shows the same
\* fields and attributes after the call as before it.
C10_OthersUnchanged ==
    [][/\ \A i \in Slots :
             call'.recv # VarRef(i) => View(heap', embeds'[i]) = View(heap, embeds[i])
       /\ \A k \in 1..Len(webhook.Embeds) :
             (k <= Len(webhook'.Embeds) /\ call'.recv # MsgRef(k))
                => View(heap', webhook'.Embeds[k]) = View(heap, webhook.Embeds[k])]_vars

====
